---- MODULE Spec2Model ----
(***************************************************************************)
(* Model of casbin-rs src/rbac/default_role_manager.rs: DefaultRoleManager *)
(* (an index of named role nodes, an optional matching function, a depth   *)
(* limit) and Role (a name and an ordered list of handles to other roles). *)
(*                                                                         *)
(* Strings are sequences of one-character strings, so that the domain      *)
(* prefix written by format!("{}::{}", ..) and the byte range removed by   *)
(* replace_range(0..domain.len() + 2, "") are computed, not assumed.       *)
(* An Arc<RwLock<Role>> handle is modelled by the name of the role it      *)
(* points to: a role leaves the index only by clear(), which drops every   *)
(* role at once, so a handle held by an indexed role always points to the  *)
(* indexed role of that name.                                              *)
(***************************************************************************)
EXTENDS Integers, Sequences, FiniteSets, TLC

VARIABLES
    all_roles,            \* DefaultRoleManager.all_roles: name -> Role
    max_hierarchy_level,  \* DefaultRoleManager.max_hierarchy_level
    matching_fn,          \* DefaultRoleManager.matching_fn: Option<fn>
    call,                 \* the last call made on the manager and its arguments
    ret,                  \* what that call produced
    named                 \* the rewritten names the calls made so far have passed

vars == <<all_roles, max_hierarchy_level, matching_fn, call, ret, named>>

-----------------------------------------------------------------------------
(* Bounds of the model *)

\* max_hierarchy_level is drawn from 0..MaxLevel at construction
MaxLevel == 2

\* the names and domains the callers pass
LocalNames == {<<"a">>, <<"b">>, <<"c">>}
DomainNames == {<<"d">>, <<"d", ":">>}
SomeNames == {<<"a">>, <<"b">>}
EdgeNames == {<<"a">>, <<":", "a">>}
MoreNames == LocalNames \cup {<<"x">>}

-----------------------------------------------------------------------------
(* Option<T> *)

None == [some |-> FALSE, val |-> <<>>]
Some(v) == [some |-> TRUE, val |-> v]

Domains == {None} \cup {Some(d) : d \in DomainNames}
OneDomain == {Some(<<"d">>)}

\* the string written by format!("{}::{}", domain, name), or the name itself
\* when the call carries no domain
Rewrite(name, domain) ==
    IF domain.some THEN domain.val \o <<":", ":">> \o name ELSE name

\* String::replace_range(0..n, ""): panics when n is past the end of x
replace_range_panics(x, n) == n > Len(x)
replace_range(x, n) == SubSeq(x, n + 1, Len(x))

Range(s) == {s[i] : i \in 1..Len(s)}

\* every order in which the elements of the set S can be enumerated
RECURSIVE Perms(_)
Perms(S) ==
    IF S = {} THEN {<<>>}
    ELSE UNION {{<<x>> \o p : p \in Perms(S \ {x})} : x \in S}

-----------------------------------------------------------------------------
(* The matching functions the callers install: fn(&str, &str) -> bool *)

Last(s) == IF Len(s) = 0 THEN "" ELSE s[Len(s)]

\* "to_b":   every name matches each role whose name ends with "b"
\* "from_a": a name that ends with "a" matches every role
\* "local":  a name matches each role with the same last character
MatchingFns == {"to_b", "from_a", "local"}

apply_fn(f, name, role) ==
    CASE f = "to_b" -> Last(role) = "b"
      [] f = "from_a" -> Last(name) = "a"
      [] f = "local" -> Last(name) = Last(role)

-----------------------------------------------------------------------------
(* Role *)

\* Role::new
Role_new(name) == [name |-> name, roles |-> <<>>]

\* Role::add_role and Role::delete_role run under the write lock of self and
\* take the read lock of other_role and of every role already in self.roles:
\* a read lock on a lock the thread holds for writing never succeeds
role_lock_conflict(self, other_role) ==
    \/ other_role = self.name
    \/ \E i \in 1..Len(self.roles) : self.roles[i] = self.name

\* add_role without the scan for a link of the same name
add_role_push(self, other_role) ==
    [self EXCEPT !.roles = Append(@, other_role)]

\* Role::add_role
add_role(self, other_role) ==
    IF \E i \in 1..Len(self.roles) : self.roles[i] = other_role
    THEN self
    ELSE [self EXCEPT !.roles = Append(@, other_role)]

\* delete_role that retains every link
delete_role_keep(self, other_role) == self

\* Role::delete_role
delete_role(self, other_role) ==
    [self EXCEPT !.roles = SelectSeq(@, LAMBDA x : x # other_role)]

\* Role::has_role, called on `self` with the write lock of `held` held by the
\* caller (has_link takes it on the start role for the whole traversal).
\* "locked" is the read of a role whose write lock is held.
RECURSIVE role_has_role(_, _, _, _, _), role_has_role_from(_, _, _, _, _, _)
role_has_role(roles, held, self, name, hierarchy_level) ==
    IF self = name THEN "true"
    ELSE IF hierarchy_level = 0 THEN "false"
    ELSE role_has_role_from(roles, held, roles[self].roles, 1, name, hierarchy_level)

\* the for loop of Role::has_role, from the i-th handle of self.roles on
role_has_role_from(roles, held, handles, i, name, hierarchy_level) ==
    IF i > Len(handles) THEN "false"
    ELSE IF handles[i] = held THEN "locked"
    ELSE LET r == role_has_role(roles, held, handles[i], name, hierarchy_level - 1)
         IN IF r = "false"
            THEN role_has_role_from(roles, held, handles, i + 1, name, hierarchy_level)
            ELSE r

\* Role::get_roles
role_get_roles(self) == self.roles

\* Role::has_direct_role
has_direct_role(self, name) == \E i \in 1..Len(self.roles) : self.roles[i] = name

-----------------------------------------------------------------------------
(* DefaultRoleManager: private helpers *)

\* the expansion loop of create_role, over the index in the iteration order
\* `order` of the hash map
RECURSIVE expand(_, _, _, _)
expand(role, f, order, i) ==
    IF i > Len(order) THEN role
    ELSE expand(IF apply_fn(f, role.name, order[i])
                THEN add_role(role, order[i]) ELSE role,
                f, order, i + 1)

\* create_role running the expansion only for a role it inserts
create_role_new_only(roles, fn, name) ==
    IF name \in DOMAIN roles THEN {roles}
    ELSE LET inserted == [n \in DOMAIN roles \cup {name} |->
                             IF n = name THEN Role_new(name) ELSE roles[n]]
         IN  IF fn.some
             THEN {[inserted EXCEPT ![name] = expand(@, fn.val, order, 1)] :
                      order \in Perms(DOMAIN inserted \ {name})}
             ELSE {inserted}

\* create_role that also links to `name` every indexed role that the matching
\* function relates to it
create_role_symmetric(roles, fn, name) ==
    LET inserted == IF name \in DOMAIN roles THEN roles
                    ELSE [n \in DOMAIN roles \cup {name} |->
                             IF n = name THEN Role_new(name) ELSE roles[n]]
    IN  IF fn.some
        THEN {[n \in DOMAIN inserted |->
                 IF n = name THEN expand(inserted[n], fn.val, order, 1)
                 ELSE IF apply_fn(fn.val, n, name) THEN add_role(inserted[n], name)
                 ELSE inserted[n]] :
                 order \in Perms(DOMAIN inserted \ {name})}
        ELSE {inserted}

\* DefaultRoleManager::create_role: the indexes it can leave behind, one for
\* each iteration order of the hash map
create_role(roles, fn, name) ==
    LET inserted == IF name \in DOMAIN roles THEN roles
                    ELSE [n \in DOMAIN roles \cup {name} |->
                             IF n = name THEN Role_new(name) ELSE roles[n]]
    IN  IF fn.some
        THEN {[inserted EXCEPT ![name] = expand(@, fn.val, order, 1)] :
                 order \in Perms(DOMAIN inserted \ {name})}
        ELSE {inserted}

\* has_role that ignores the matching function
has_role_exact(roles, fn, name) == name \in DOMAIN roles

\* DefaultRoleManager::has_role
has_role(roles, fn, name) ==
    IF fn.some
    THEN \E role \in DOMAIN roles : apply_fn(fn.val, name, role)
    ELSE name \in DOMAIN roles

-----------------------------------------------------------------------------
(* What a call produces *)

Unit == [kind |-> "unit", bool |-> FALSE, names |-> <<>>]
Bool(b) == [kind |-> "bool", bool |-> b, names |-> <<>>]
NameVec(v) == [kind |-> "names", bool |-> FALSE, names |-> v]
Ok == [kind |-> "ok", bool |-> FALSE, names |-> <<>>]
NotFound == [kind |-> "not_found", bool |-> FALSE, names |-> <<>>]
\* the call never returns: the thread blocks for ever on a lock it holds
Hang == [kind |-> "hang", bool |-> FALSE, names |-> <<>>]
\* the call unwinds with a panic
Panic == [kind |-> "panic", bool |-> FALSE, names |-> <<>>]

\* std::sync::RwLock::read on a lock the current thread holds for writing:
\* the documentation allows a panic or a deadlock
SelfLock == {Hang, Panic}

\* the caller goes on only after a call that returned
Running == ret.kind \notin {"hang", "panic"}

Call(op, name1, name2, domain) ==
    [op |-> op, name1 |-> name1, name2 |-> name2, domain |-> domain]

\* the strip of get_roles and get_users
strip_panics(names, domain) ==
    \E i \in 1..Len(names) : replace_range_panics(names[i], Len(domain.val) + 2)
strip(names, domain) ==
    [i \in 1..Len(names) |-> replace_range(names[i], Len(domain.val) + 2)]

-----------------------------------------------------------------------------
(* The RoleManager operations as functions of the manager's fields and the   *)
(* arguments: the set of (index left behind, value produced) pairs a call    *)
(* can end in. There is more than one only where the code iterates over the  *)
(* hash map or reads a lock its thread holds for writing.                    *)

Outcome(roles, r) == [roles |-> roles, ret |-> r]

\* DefaultRoleManager::add_link
add_link_outcomes(roles, fn, name1, name2, domain) ==
    LET n1 == Rewrite(name1, domain)
        n2 == Rewrite(name2, domain)
    IN  UNION {UNION {
            IF role_lock_conflict(r2[n1], n2)
            THEN {Outcome(r2, x) : x \in SelfLock}
            ELSE {Outcome([r2 EXCEPT ![n1] = add_role(@, n2)], Unit)}
            : r2 \in create_role(r1, fn, n2)} : r1 \in create_role(roles, fn, n1)}

\* delete_link dropping the role of name1 from the index when the deletion
\* leaves it without a link from it or to it
delete_link_outcomes_prunes(roles, fn, name1, name2, domain) ==
    LET n1 == Rewrite(name1, domain)
        n2 == Rewrite(name2, domain)
        prune(r) ==
            IF r[n1].roles = <<>> /\ \A n \in DOMAIN r : n1 \notin Range(r[n].roles)
            THEN [n \in DOMAIN r \ {n1} |-> r[n]]
            ELSE r
    IN  IF ~has_role(roles, fn, n1) \/ ~has_role(roles, fn, n2)
        THEN {Outcome(roles, NotFound)}
        ELSE UNION {UNION {
                IF role_lock_conflict(r2[n1], n2)
                THEN {Outcome(r2, x) : x \in SelfLock}
                ELSE {Outcome(prune([r2 EXCEPT ![n1] = delete_role(@, n2)]), Ok)}
                : r2 \in create_role(r1, fn, n2)} : r1 \in create_role(roles, fn, n1)}

\* DefaultRoleManager::delete_link
delete_link_outcomes(roles, fn, name1, name2, domain) ==
    LET n1 == Rewrite(name1, domain)
        n2 == Rewrite(name2, domain)
    IN  IF ~has_role(roles, fn, n1) \/ ~has_role(roles, fn, n2)
        THEN {Outcome(roles, NotFound)}
        ELSE UNION {UNION {
                IF role_lock_conflict(r2[n1], n2)
                THEN {Outcome(r2, x) : x \in SelfLock}
                ELSE {Outcome([r2 EXCEPT ![n1] = delete_role(@, n2)], Ok)}
                : r2 \in create_role(r1, fn, n2)} : r1 \in create_role(roles, fn, n1)}

\* has_link without the early return for name1 == name2
has_link_outcomes_no_identity(roles, fn, level, name1, name2, domain) ==
    LET n1 == Rewrite(name1, domain)
        n2 == Rewrite(name2, domain)
    IN  IF ~has_role(roles, fn, n1) \/ ~has_role(roles, fn, n2)
        THEN {Outcome(roles, Bool(FALSE))}
        ELSE UNION {
                LET found == role_has_role(r, n1, n1, n2, level)
                IN  IF found = "locked"
                    THEN {Outcome(r, x) : x \in SelfLock}
                    ELSE {Outcome(r, Bool(found = "true"))}
                : r \in create_role(roles, fn, n1)}

\* has_link creating the role of name2 as it creates the one of name1
has_link_outcomes_creates_both(roles, fn, level, name1, name2, domain) ==
    LET n1 == Rewrite(name1, domain)
        n2 == Rewrite(name2, domain)
    IN  IF name1 = name2 THEN {Outcome(roles, Bool(TRUE))}
        ELSE IF ~has_role(roles, fn, n1) \/ ~has_role(roles, fn, n2)
        THEN {Outcome(roles, Bool(FALSE))}
        ELSE UNION {UNION {
                LET found == role_has_role(r2, n1, n1, n2, level)
                IN  IF found = "locked"
                    THEN {Outcome(r2, x) : x \in SelfLock}
                    ELSE {Outcome(r2, Bool(found = "true"))}
                : r2 \in create_role(r1, fn, n2)} : r1 \in create_role(roles, fn, n1)}

\* has_link answering true when a name fails the membership test
has_link_outcomes_unknown_is_true(roles, fn, level, name1, name2, domain) ==
    LET n1 == Rewrite(name1, domain)
        n2 == Rewrite(name2, domain)
    IN  IF name1 = name2 THEN {Outcome(roles, Bool(TRUE))}
        ELSE IF ~has_role(roles, fn, n1) \/ ~has_role(roles, fn, n2)
        THEN {Outcome(roles, Bool(TRUE))}
        ELSE UNION {
                LET found == role_has_role(r, n1, n1, n2, level)
                IN  IF found = "locked"
                    THEN {Outcome(r, x) : x \in SelfLock}
                    ELSE {Outcome(r, Bool(found = "true"))}
                : r \in create_role(roles, fn, n1)}

\* DefaultRoleManager::has_link
has_link_outcomes(roles, fn, level, name1, name2, domain) ==
    LET n1 == Rewrite(name1, domain)
        n2 == Rewrite(name2, domain)
    IN  IF name1 = name2 THEN {Outcome(roles, Bool(TRUE))}
        ELSE IF ~has_role(roles, fn, n1) \/ ~has_role(roles, fn, n2)
        THEN {Outcome(roles, Bool(FALSE))}
        ELSE UNION {
                LET found == role_has_role(r, n1, n1, n2, level)
                IN  IF found = "locked"
                    THEN {Outcome(r, x) : x \in SelfLock}
                    ELSE {Outcome(r, Bool(found = "true"))}
                : r \in create_role(roles, fn, n1)}

\* the map over the returned names that strips the domain, in get_roles and
\* get_users
strip_domain(names, domain) ==
    IF ~domain.some THEN NameVec(names)
    ELSE IF strip_panics(names, domain) THEN Panic
    ELSE NameVec(strip(names, domain))

\* DefaultRoleManager::get_roles
get_roles_outcomes(roles, fn, name, domain) ==
    LET n == Rewrite(name, domain)
    IN  IF ~has_role(roles, fn, n)
        THEN {Outcome(roles, NameVec(<<>>))}
        ELSE {Outcome(r, strip_domain(role_get_roles(r[n]), domain)) :
                 r \in create_role(roles, fn, n)}

\* DefaultRoleManager::get_users: the users come in the iteration order of
\* the hash map
get_users_outcomes(roles, fn, name, domain) ==
    LET n == Rewrite(name, domain)
    IN  IF ~has_role(roles, fn, n)
        THEN {Outcome(roles, NameVec(<<>>))}
        ELSE {Outcome(roles, strip_domain(users, domain)) :
                 users \in Perms({r \in DOMAIN roles : has_direct_role(roles[r], n)})}

-----------------------------------------------------------------------------
(* DefaultRoleManager: construction and the calls made on it *)

\* `named` is a history of the calls, kept only in the behaviours that start
\* with the empty history; in the others it stays NotRecorded (<<>> is the
\* empty string, which no caller passes as a name)
NotRecorded == {<<>>}
Record(names) == IF named = NotRecorded THEN named ELSE named \cup names

\* DefaultRoleManager::new
New ==
    /\ all_roles = <<>>
    /\ max_hierarchy_level \in 0..MaxLevel
    /\ matching_fn = None
    /\ call = Call("new", <<>>, <<>>, None)
    /\ ret = Unit

Init == New /\ named = NotRecorded

\* the same, with the history of the names kept
InitNamed == New /\ named = {}

\* add_matching_fn running the expansion of create_role on every indexed role
add_matching_fn_expands(f) ==
    /\ Running
    /\ matching_fn' = Some(f)
    /\ call' = Call("add_matching_fn", <<>>, <<>>, None)
    /\ ret' = Unit
    /\ \E order \in Perms(DOMAIN all_roles) :
          all_roles' = [n \in DOMAIN all_roles |->
                           expand(all_roles[n], f,
                                  SelectSeq(order, LAMBDA x : x # n), 1)]
    /\ UNCHANGED <<max_hierarchy_level, named>>

\* DefaultRoleManager::add_matching_fn
add_matching_fn(f) ==
    /\ Running
    /\ matching_fn' = Some(f)
    /\ call' = Call("add_matching_fn", <<>>, <<>>, None)
    /\ ret' = Unit
    /\ UNCHANGED <<all_roles, max_hierarchy_level, named>>

\* a call of add_link
add_link(name1, name2, domain) ==
    /\ Running
    /\ call' = Call("add_link", name1, name2, domain)
    /\ named' = Record({Rewrite(name1, domain), Rewrite(name2, domain)})
    /\ \E o \in add_link_outcomes(all_roles, matching_fn, name1, name2, domain) :
          all_roles' = o.roles /\ ret' = o.ret
    /\ UNCHANGED <<max_hierarchy_level, matching_fn>>

\* a call of delete_link
delete_link(name1, name2, domain) ==
    /\ Running
    /\ call' = Call("delete_link", name1, name2, domain)
    /\ named' = Record({Rewrite(name1, domain), Rewrite(name2, domain)})
    /\ \E o \in delete_link_outcomes(all_roles, matching_fn, name1, name2, domain) :
          all_roles' = o.roles /\ ret' = o.ret
    /\ UNCHANGED <<max_hierarchy_level, matching_fn>>

\* a call of has_link
has_link(name1, name2, domain) ==
    /\ Running
    /\ call' = Call("has_link", name1, name2, domain)
    /\ named' = Record({Rewrite(name1, domain), Rewrite(name2, domain)})
    /\ \E o \in has_link_outcomes(all_roles, matching_fn, max_hierarchy_level,
                                  name1, name2, domain) :
          all_roles' = o.roles /\ ret' = o.ret
    /\ UNCHANGED <<max_hierarchy_level, matching_fn>>

\* a call of get_roles
get_roles(name, domain) ==
    /\ Running
    /\ call' = Call("get_roles", name, <<>>, domain)
    /\ named' = Record({Rewrite(name, domain)})
    /\ \E o \in get_roles_outcomes(all_roles, matching_fn, name, domain) :
          all_roles' = o.roles /\ ret' = o.ret
    /\ UNCHANGED <<max_hierarchy_level, matching_fn>>

\* a call of get_users
get_users(name, domain) ==
    /\ Running
    /\ call' = Call("get_users", name, <<>>, domain)
    /\ named' = Record({Rewrite(name, domain)})
    /\ \E o \in get_users_outcomes(all_roles, matching_fn, name, domain) :
          all_roles' = o.roles /\ ret' = o.ret
    /\ UNCHANGED <<max_hierarchy_level, matching_fn>>

\* clear that drops the links and keeps the roles
clear_links ==
    /\ Running
    /\ all_roles' = [n \in DOMAIN all_roles |-> Role_new(n)]
    /\ call' = Call("clear", <<>>, <<>>, None)
    /\ ret' = Unit
    /\ UNCHANGED <<max_hierarchy_level, matching_fn, named>>

\* DefaultRoleManager::clear
clear ==
    /\ Running
    /\ all_roles' = <<>>
    /\ call' = Call("clear", <<>>, <<>>, None)
    /\ ret' = Unit
    /\ UNCHANGED <<max_hierarchy_level, matching_fn, named>>

\* every operation, with three names under one domain
Next ==
    \/ \E f \in MatchingFns : add_matching_fn(f)
    \/ \E name1, name2 \in LocalNames, domain \in OneDomain : add_link(name1, name2, domain)
    \/ \E name1, name2 \in LocalNames, domain \in OneDomain : delete_link(name1, name2, domain)
    \/ \E name1, name2 \in LocalNames, domain \in OneDomain : has_link(name1, name2, domain)
    \/ \E name \in LocalNames, domain \in OneDomain : get_roles(name, domain)
    \/ \E name \in LocalNames, domain \in OneDomain : get_users(name, domain)
    \/ clear

Spec == Init /\ [][Next]_vars

\* no matching function, no domain, three names: every graph on three roles
NextGraph ==
    \/ \E name1, name2 \in LocalNames : add_link(name1, name2, None)
    \/ \E name1, name2 \in LocalNames : delete_link(name1, name2, None)
    \/ \E name1, name2 \in LocalNames : has_link(name1, name2, None)
    \/ \E name \in LocalNames : get_roles(name, None)
    \/ \E name \in LocalNames : get_users(name, None)
    \/ clear

SpecGraph == Init /\ [][NextGraph]_vars

\* every operation, the links among two names and has_link and get_roles over
\* four, under the domain "d", with the history of the names kept
NextNamed ==
    \/ \E f \in MatchingFns : add_matching_fn(f)
    \/ \E name1, name2 \in SomeNames, domain \in OneDomain :
          add_link(name1, name2, domain)
    \/ \E name1, name2 \in SomeNames, domain \in OneDomain :
          delete_link(name1, name2, domain)
    \/ \E name1, name2 \in MoreNames, domain \in OneDomain :
          has_link(name1, name2, domain)
    \/ \E name \in MoreNames, domain \in OneDomain : get_roles(name, domain)
    \/ \E name \in SomeNames, domain \in OneDomain : get_users(name, domain)
    \/ clear

SpecNamed == InitNamed /\ [][NextNamed]_vars

\* no matching function, every domain, names and domains without "::" that
\* begin or end with a single ':'
NextDomain ==
    \/ \E name1, name2 \in EdgeNames, domain \in Domains : add_link(name1, name2, domain)
    \/ \E name1, name2 \in EdgeNames, domain \in Domains : delete_link(name1, name2, domain)
    \/ \E name1, name2 \in EdgeNames, domain \in Domains : has_link(name1, name2, domain)
    \/ \E name \in EdgeNames, domain \in Domains : get_roles(name, domain)
    \/ \E name \in EdgeNames, domain \in Domains : get_users(name, domain)
    \/ clear

SpecDomain == Init /\ [][NextDomain]_vars

-----------------------------------------------------------------------------
(* Vocabulary of the properties *)

N1 == Rewrite(call.name1, call.domain)
N2 == Rewrite(call.name2, call.domain)

\* the roles reached from the set S by at most k links
RECURSIVE WithinHops(_, _, _)
WithinHops(roles, S, k) ==
    IF k = 0 THEN S
    ELSE WithinHops(roles, S \cup UNION {Range(roles[n].roles) : n \in S}, k - 1)

\* both names are indexed and a directed path of at most k links leads from
\* n1 to n2
PathWithin(roles, n1, n2, k) ==
    /\ n1 \in DOMAIN roles
    /\ n2 \in DOMAIN roles
    /\ n2 \in WithinHops(roles, {n1}, k)

\* every link of every indexed role leads to an indexed role other than itself
LinksWellFormed ==
    \A n \in DOMAIN all_roles :
        /\ all_roles[n].name = n
        /\ \A i \in 1..Len(all_roles[n].roles) :
              all_roles[n].roles[i] \in DOMAIN all_roles \ {n}

-----------------------------------------------------------------------------
(* C1 *)

\* C1: with no matching function installed and n1 # n2, has_link(n1, n2, d)
\* returns true if and only if both rewritten names are indexed and a directed
\* path of 1..max_hierarchy_level links leads from n1 to n2.
\* (has_link leaves the index alone without a matching function, so the path
\* is looked for in the state the call leaves.)
C1_HasLinkIffBoundedPath ==
    (call.op = "has_link" /\ call.name1 # call.name2 /\ ~matching_fn.some)
        => ((ret = Bool(TRUE)) <=> PathWithin(all_roles, N1, N2, max_hierarchy_level))

-----------------------------------------------------------------------------
(* C2 *)

\* C2: cycles are tolerated: every has_link call returns a boolean.
C2_HasLinkAlwaysReturns ==
    call.op = "has_link" => ret.kind = "bool"

-----------------------------------------------------------------------------
(* C3 *)

\* C3: add_link has no failure mode: every add_link(n1, n2, d), n1 = n2
\* included, completes with both roles indexed and the link n1 -> n2 recorded.
C3_AddLinkCompletes ==
    call.op = "add_link"
        => /\ ret = Unit
           /\ N1 \in DOMAIN all_roles
           /\ N2 \in DOMAIN all_roles
           /\ N2 \in Range(all_roles[N1].roles)

-----------------------------------------------------------------------------
(* C4 *)

\* the membership test as the specification words it, on the index `roles`:
\* exact containment without a matching function, some indexed R with
\* match_fn(name, R) with one
Known(roles, name) ==
    IF matching_fn.some
    THEN \E R \in DOMAIN roles : apply_fn(matching_fn.val, name, R)
    ELSE name \in DOMAIN roles

\* C4: delete_link(n1, n2, d) returns NotFound exactly when one of the two
\* rewritten names fails the membership test, it then leaves the index and
\* every list of links as they were, and no other operation returns an error.
C4_NotFoundIffUnknown ==
    [][/\ call'.op = "delete_link"
            => LET n1 == Rewrite(call'.name1, call'.domain)
                   n2 == Rewrite(call'.name2, call'.domain)
               IN  /\ (ret' = NotFound) <=> ~(Known(all_roles, n1) /\ Known(all_roles, n2))
                   /\ ret' = NotFound => all_roles' = all_roles
       /\ call'.op # "delete_link" => ret' # NotFound]_vars

\* delete_link answered NotFound for two indexed roles, under a matching
\* function that matches one of them with nothing
C4_Witness ==
    /\ call.op = "delete_link"
    /\ ret = NotFound
    /\ matching_fn.some
    /\ N1 \in DOMAIN all_roles
    /\ N2 \in DOMAIN all_roles
    /\ N1 # N2

-----------------------------------------------------------------------------
(* C5 *)

\* C5 as stated: after a delete_link(n1, n2, d) that returns Ok, a
\* get_roles(n1, d) issued next does not contain n2, with or without a
\* matching function.
C5_DeletedLinkNotListed ==
    [][(/\ call.op = "delete_link"
        /\ ret = Ok
        /\ call'.op = "get_roles"
        /\ call'.name1 = call.name1
        /\ call'.domain = call.domain)
            => /\ ret'.kind = "names"
               /\ call.name2 \notin Range(ret'.names)]_vars

\* C5 as amended: a delete_link(n1, n2, d) that returns Ok leaves n1 without
\* a link to n2, and a get_roles(n1, d) issued next does not contain n2 when
\* no matching function is installed.
C5_DeletedLinkGone ==
    [][/\ (call'.op = "delete_link" /\ ret' = Ok)
            => LET n1 == Rewrite(call'.name1, call'.domain)
                   n2 == Rewrite(call'.name2, call'.domain)
               IN  /\ n1 \in DOMAIN all_roles'
                   /\ n2 \notin Range(all_roles'[n1].roles)
       /\ (/\ call.op = "delete_link"
           /\ ret = Ok
           /\ ~matching_fn.some
           /\ call'.op = "get_roles"
           /\ call'.name1 = call.name1
           /\ call'.domain = call.domain)
            => /\ ret'.kind = "names"
               /\ call.name2 \notin Range(ret'.names)]_vars

\* a delete_link returned Ok for a link that the matching function had put
\* back during the call, and n1 keeps another link
C5_Witness ==
    /\ call.op = "delete_link"
    /\ ret = Ok
    /\ matching_fn.some
    /\ apply_fn(matching_fn.val, N1, N2)
    /\ all_roles[N1].roles # <<>>

-----------------------------------------------------------------------------
(* C6 *)

\* C6: no role has two links whose targets have the same name, in every
\* state reached by add_link, delete_link, has_link, get_roles,
\* add_matching_fn and clear.
C6_EdgeUniqueness ==
    \A n \in DOMAIN all_roles :
        \A i, j \in 1..Len(all_roles[n].roles) :
            all_roles[n].roles[i] = all_roles[n].roles[j] => i = j

\* an add_link returned, under a matching function, on a role with two links
C6_Witness ==
    /\ call.op = "add_link"
    /\ ret = Unit
    /\ matching_fn.some
    /\ Len(all_roles[N1].roles) >= 2

-----------------------------------------------------------------------------
(* C7 *)

\* C7: has_link(x, x, d) returns true in every state, for a name never added
\* and after clear too, and leaves the index as it was.
C7_Identity ==
    [][(call'.op = "has_link" /\ call'.name1 = call'.name2)
            => /\ ret' = Bool(TRUE)
               /\ all_roles' = all_roles]_vars

\* has_link(x, x, d) returned true for a name that is not indexed, with other
\* roles indexed and a matching function installed
C7_Witness ==
    /\ call.op = "has_link"
    /\ call.name1 = call.name2
    /\ ret = Bool(TRUE)
    /\ N1 \notin DOMAIN all_roles
    /\ DOMAIN all_roles # {}
    /\ matching_fn.some

-----------------------------------------------------------------------------
(* C8 *)

\* C8: for every name a returned by get_users(b, d), b appears in the result
\* of get_roles(a, d), with or without a matching function.
C8_ReverseConsistency ==
    (call.op = "get_users" /\ ret.kind = "names")
        => \A i \in 1..Len(ret.names) :
              \A o \in get_roles_outcomes(all_roles, matching_fn, ret.names[i], call.domain) :
                 /\ o.ret.kind = "names"
                 /\ call.name1 \in Range(o.ret.names)

-----------------------------------------------------------------------------
(* C9 *)

\* the string s holds the separator "::"
HasSeparator(s) == \E i \in 1..(Len(s) - 1) : s[i] = ":" /\ s[i + 1] = ":"
SeparatorFree(domain) == ~domain.some \/ ~HasSeparator(domain.val)
FreeNames == {x \in EdgeNames : ~HasSeparator(x)}

\* what the queries under the domain d2 answer on the index `roles`
Answers(roles, d2) ==
    [has_link |-> [x \in FreeNames \X FreeNames |->
                      {o.ret : o \in has_link_outcomes(roles, matching_fn,
                                         max_hierarchy_level, x[1], x[2], d2)}],
     get_roles |-> [x \in FreeNames |->
                      {o.ret : o \in get_roles_outcomes(roles, matching_fn, x, d2)}],
     \* the users in any order: get_users lists them in hash map order
     get_users |-> [x \in FreeNames |->
                      {o.ret : o \in get_users_outcomes(roles, matching_fn, x, d2)}]]

\* C9: with no matching function installed and names and domains that do not
\* contain "::", an add_link or delete_link under the domain d1 changes the
\* result of no has_link, get_roles or get_users query under another domain
\* d2, or under no domain.
C9_DomainIsolation ==
    [][(/\ call'.op \in {"add_link", "delete_link"}
        /\ ~matching_fn.some
        /\ ~HasSeparator(call'.name1)
        /\ ~HasSeparator(call'.name2)
        /\ SeparatorFree(call'.domain))
            => \A d2 \in Domains \ {call'.domain} :
                  SeparatorFree(d2)
                     => Answers(all_roles', d2) = Answers(all_roles, d2)]_vars

-----------------------------------------------------------------------------
(* C10 *)

\* C10: clear() leaves the index empty, and as long as no add_link is made
\* the index stays empty, has_link(x, y, d) is false for x # y, get_roles and
\* get_users return empty sequences and delete_link returns NotFound, with or
\* without a matching function.
C10_ClearEmpties ==
    [][/\ call'.op = "clear" => DOMAIN all_roles' = {}
       /\ (DOMAIN all_roles = {} /\ call'.op # "add_link")
            => /\ DOMAIN all_roles' = {}
               /\ (call'.op = "has_link" /\ call'.name1 # call'.name2)
                     => ret' = Bool(FALSE)
               /\ call'.op \in {"get_roles", "get_users"} => ret' = NameVec(<<>>)
               /\ call'.op = "delete_link" => ret' = NotFound]_vars

\* clear() returned with a matching function installed
C10_Witness ==
    /\ call.op = "clear"
    /\ matching_fn.some
    /\ DOMAIN all_roles = {}

-----------------------------------------------------------------------------
(* C11 *)

\* C11: depth monotonicity: a has_link query that returned true under the
\* manager's max_hierarchy_level returns true as well, on the same index,
\* under every larger level.
C11_DepthMonotone ==
    (call.op = "has_link" /\ ret = Bool(TRUE))
        => \A level \in max_hierarchy_level..MaxLevel :
              \A o \in has_link_outcomes(all_roles, matching_fn, level,
                                         call.name1, call.name2, call.domain) :
                 o.ret = Bool(TRUE)

-----------------------------------------------------------------------------
(* C12 *)

\* C12 as stated: a has_link(n1, n2, d) neither of whose rewritten names was
\* passed to an earlier call returns false.
C12_UnnamedIsFalse ==
    [][(/\ call'.op = "has_link"
        /\ Rewrite(call'.name1, call'.domain) \notin named
        /\ Rewrite(call'.name2, call'.domain) \notin named)
            => ret' = Bool(FALSE)]_vars

\* C12: a has_link(n1, n2, d) with n1 # n2, neither of whose rewritten names
\* was passed to an earlier call, returns false; and a name that was never
\* passed is not indexed.
C12_UnnamedDistinctIsFalse ==
    [][/\ (/\ call'.op = "has_link"
           /\ call'.name1 # call'.name2
           /\ Rewrite(call'.name1, call'.domain) \notin named
           /\ Rewrite(call'.name2, call'.domain) \notin named)
               => ret' = Bool(FALSE)
       /\ DOMAIN all_roles \subseteq named]_vars

\* has_link returned false for two names that no other call has passed, after
\* both passed the membership test and n1 was created with a link
C12_Witness ==
    /\ call.op = "has_link"
    /\ ret = Bool(FALSE)
    /\ matching_fn.some
    /\ Cardinality(named) = 4
    /\ DOMAIN all_roles = {Rewrite(<<"a">>, call.domain),
                           Rewrite(<<"b">>, call.domain), N1}
    /\ N1 \notin {Rewrite(n, call.domain) : n \in SomeNames}
    /\ N2 \notin DOMAIN all_roles
    /\ all_roles[N1].roles # <<>>
    /\ \A n \in DOMAIN all_roles : N1 \notin Range(all_roles[n].roles)

-----------------------------------------------------------------------------
(* C13 *)

\* the links of `old` that are still in `new` come first in `new`, in the
\* order they have in `old`
KeepsOrder(old, new) ==
    LET kept == SelectSeq(old, LAMBDA x : x \in Range(new))
    IN  /\ Len(kept) <= Len(new)
        /\ SubSeq(new, 1, Len(kept)) = kept

\* C13: get_roles(name, d) returns exactly the links of `name`, in the order
\* of their insertion, and the empty sequence when the name is unknown (neither
\* indexed nor passing the membership test). Insertion order: no call other
\* than clear reorders the links of a role or drops one, except that
\* delete_link(n1, n2, d) drops n2 from n1 and that links are added after the
\* ones there; with no matching function an add_link of a link already there
\* leaves the list as it is and a new link goes last.
C13_GetRolesInInsertionOrder ==
    [][LET n1 == Rewrite(call'.name1, call'.domain)
           n2 == Rewrite(call'.name2, call'.domain)
       IN  /\ \A n \in DOMAIN all_roles \cap DOMAIN all_roles' :
                 /\ KeepsOrder(all_roles[n].roles, all_roles'[n].roles)
                 /\ Range(all_roles[n].roles) \ Range(all_roles'[n].roles)
                       \subseteq (IF call'.op = "delete_link" /\ n = n1
                                  THEN {n2} ELSE {})
           /\ (call'.op = "add_link" /\ ret' = Unit)
                 => /\ all_roles'[n1].roles # <<>>
                    /\ (n1 \in DOMAIN all_roles /\ ~matching_fn.some
                        /\ n2 \in Range(all_roles[n1].roles))
                          => all_roles'[n1].roles = all_roles[n1].roles
                    /\ (~matching_fn.some
                        /\ ~(n1 \in DOMAIN all_roles
                             /\ n2 \in Range(all_roles[n1].roles)))
                          => Last(all_roles'[n1].roles) = n2
           /\ (call'.op = "get_roles" /\ n1 \in DOMAIN all_roles)
                 => /\ ret'.kind = "names"
                    /\ n1 \in DOMAIN all_roles'
                    /\ [i \in 1..Len(ret'.names) |->
                          Rewrite(ret'.names[i], call'.domain)] = all_roles'[n1].roles
           /\ (/\ call'.op = "get_roles"
               /\ n1 \notin DOMAIN all_roles
               /\ ~Known(all_roles, n1))
                 => /\ ret' = NameVec(<<>>)
                    /\ all_roles' = all_roles]_vars

-----------------------------------------------------------------------------
(* C14 *)

\* the index `new` is the index `old` except for the role `n`, which may have
\* been created and may have gained links after the ones it had, each to an
\* indexed role that the matching function relates it to
OnlyExpanded(old, new, n) ==
    /\ DOMAIN old \subseteq DOMAIN new
    /\ DOMAIN new \subseteq DOMAIN old \cup {n}
    /\ \A m \in DOMAIN old \ {n} : new[m] = old[m]
    /\ n \in DOMAIN new
          => LET before == IF n \in DOMAIN old THEN old[n].roles ELSE <<>>
                 after == new[n].roles
             IN  /\ Len(before) <= Len(after)
                 /\ SubSeq(after, 1, Len(before)) = before
                 /\ \A i \in (Len(before) + 1)..Len(after) :
                       /\ after[i] \in DOMAIN new \ {n}
                       /\ apply_fn(matching_fn.val, n, after[i])

\* C14: the queries leave the index and the links alone: get_users changes
\* nothing; has_link and get_roles change nothing but the role of the queried
\* name (name1 for has_link), which with a matching function installed may be
\* created and gain matcher links; with no matching function they change
\* nothing, and has_link never adds the role of name2.
C14_QueriesFrame ==
    [][LET n1 == Rewrite(call'.name1, call'.domain)
           n2 == Rewrite(call'.name2, call'.domain)
       IN  /\ call'.op = "get_users" => all_roles' = all_roles
           /\ call'.op \in {"has_link", "get_roles"}
                 => IF matching_fn.some
                    THEN OnlyExpanded(all_roles, all_roles', n1)
                    ELSE all_roles' = all_roles
           /\ (call'.op = "has_link" /\ n2 \notin DOMAIN all_roles)
                 => n2 \notin DOMAIN all_roles']_vars

\* under a matching function has_link returned after creating the role of
\* name1 with a link, name2 passing the membership test without being indexed
C14_Witness ==
    /\ call.op = "has_link"
    /\ call.name1 # call.name2
    /\ matching_fn.some
    /\ ret.kind = "bool"
    /\ N2 \notin DOMAIN all_roles
    /\ N1 \in DOMAIN all_roles
    /\ all_roles[N1].roles # <<>>
    /\ \E R \in DOMAIN all_roles : apply_fn(matching_fn.val, N2, R)

-----------------------------------------------------------------------------
(* C15 *)

\* C15: node lifecycle: no call other than clear removes a name from the
\* index; after a delete_link(n1, n2, d) that returns Ok both rewritten names
\* are indexed, also when n1 is left with no link; a delete_link that returns
\* NotFound adds no name.
C15_IndexNeverShrinks ==
    [][/\ call'.op # "clear" => DOMAIN all_roles \subseteq DOMAIN all_roles'
       /\ (call'.op = "delete_link" /\ ret' = Ok)
             => /\ Rewrite(call'.name1, call'.domain) \in DOMAIN all_roles'
                /\ Rewrite(call'.name2, call'.domain) \in DOMAIN all_roles'
       /\ (call'.op = "delete_link" /\ ret' = NotFound)
             => DOMAIN all_roles' = DOMAIN all_roles]_vars

\* delete_link returned Ok and left the role of name1 indexed with no link
\* from it and none to it
C15_Witness ==
    /\ call.op = "delete_link"
    /\ ret = Ok
    /\ N1 \in DOMAIN all_roles
    /\ N2 \in DOMAIN all_roles
    /\ all_roles[N1].roles = <<>>
    /\ \A n \in DOMAIN all_roles : N1 \notin Range(all_roles[n].roles)

-----------------------------------------------------------------------------
(* C16 *)

\* C16: with a matching function installed, add_link(n1, n2, d) changes the
\* links of the roles of n1 and n2 only: every other indexed role keeps its
\* links, also when the matching function relates it to n1 or to n2.
C16_AddLinkTouchesEndpointsOnly ==
    [][(call'.op = "add_link" /\ matching_fn.some)
            => \A n \in DOMAIN all_roles :
                  n \notin {Rewrite(call'.name1, call'.domain),
                            Rewrite(call'.name2, call'.domain)}
                     => /\ n \in DOMAIN all_roles'
                        /\ all_roles'[n] = all_roles[n]]_vars

\* add_link returned under a matching function that relates a third indexed
\* role to n1, and that role has no link to n1
C16_Witness ==
    /\ call.op = "add_link"
    /\ ret = Unit
    /\ matching_fn.some
    /\ \E n \in DOMAIN all_roles \ {N1, N2} :
          /\ apply_fn(matching_fn.val, n, N1)
          /\ N1 \notin Range(all_roles[n].roles)

-----------------------------------------------------------------------------
(* C17 *)

\* C17 as stated: add_matching_fn changes neither the index nor any link, and
\* a role indexed when the function is installed gains no link from a query
\* that names it again (here: the query that follows the installation).
C17_ExistingNeverExpanded ==
    [][/\ call'.op = "add_matching_fn" => all_roles' = all_roles
       /\ (/\ call.op = "add_matching_fn"
           /\ call'.op \in {"has_link", "get_roles"}
           /\ Rewrite(call'.name1, call'.domain) \in DOMAIN all_roles)
             => LET n == Rewrite(call'.name1, call'.domain)
                IN  all_roles'[n] = all_roles[n]]_vars

\* the rewritten names that a call materializes
Materialized(c) ==
    CASE c.op \in {"add_link", "delete_link"} ->
            {Rewrite(c.name1, c.domain), Rewrite(c.name2, c.domain)}
      [] c.op \in {"has_link", "get_roles"} -> {Rewrite(c.name1, c.domain)}
      [] OTHER -> {}

\* C17: add_matching_fn changes neither the index nor any link; afterwards an
\* indexed role gains or loses links only in a call that materializes it
\* again (add_link and delete_link for both names, has_link for name1,
\* get_roles), never in a call that does not name it.
C17_ExpandedOnlyWhenNamed ==
    [][/\ call'.op = "add_matching_fn" => all_roles' = all_roles
       /\ call'.op # "clear"
             => \A n \in DOMAIN all_roles :
                   n \notin Materialized(call')
                      => /\ n \in DOMAIN all_roles'
                         /\ all_roles'[n] = all_roles[n]]_vars

\* a matching function was installed over an index in which it relates a role
\* to another without a link between them
C17_Witness ==
    /\ call.op = "add_matching_fn"
    /\ \E n, e \in DOMAIN all_roles :
          /\ n # e
          /\ apply_fn(matching_fn.val, n, e)
          /\ e \notin Range(all_roles[n].roles)

-----------------------------------------------------------------------------
(* C18 *)

\* the role n has a link to every other indexed role that the matching
\* function relates it to
FullyExpanded(roles, n) ==
    /\ n \in DOMAIN roles
    /\ \A e \in DOMAIN roles \ {n} :
          apply_fn(matching_fn.val, n, e) => e \in Range(roles[n].roles)

\* C18: with a matching function installed, after an add_link(n1, n2, d) that
\* returns, the roles of n1 and n2, and after a get_roles(n, d) that passes
\* the membership test, the role of n, have a link to every other indexed
\* role that the matching function relates them to, whenever those roles were
\* added.
C18_ExpansionOnEveryMaterialization ==
    [][LET n1 == Rewrite(call'.name1, call'.domain)
           n2 == Rewrite(call'.name2, call'.domain)
       IN  /\ (call'.op = "add_link" /\ matching_fn.some /\ ret' = Unit)
                 => /\ FullyExpanded(all_roles', n1)
                    /\ FullyExpanded(all_roles', n2)
           /\ (call'.op = "get_roles" /\ matching_fn.some /\ Known(all_roles, n1))
                 => FullyExpanded(all_roles', n1)]_vars

\* under a matching function get_roles returned the links of a role whose
\* link to a role it is related to comes after a link to a role it is not
\* related to
C18_Witness ==
    /\ call.op = "get_roles"
    /\ matching_fn.some
    /\ ret.kind = "names"
    /\ N1 \in DOMAIN all_roles
    /\ Len(all_roles[N1].roles) = 2
    /\ ~apply_fn(matching_fn.val, N1, all_roles[N1].roles[1])
    /\ apply_fn(matching_fn.val, N1, all_roles[N1].roles[2])
    /\ Len(ret.names) = 2

-----------------------------------------------------------------------------
(* C19 *)

\* C19: with no matching function installed and names and domains free of
\* "::", every link joins two indexed roles created under one domain, and the
\* names returned by get_roles(name, d) and get_users(name, d) are local
\* names: prefixed with d again they are, for get_roles, the links of the role
\* in their order and, for get_users, the indexed roles with a link to it.
C19_StripIsExact ==
    (/\ ~matching_fn.some
     /\ \A x \in EdgeNames \cup DomainNames : ~HasSeparator(x))
        => /\ \A n \in DOMAIN all_roles :
                 \A e \in Range(all_roles[n].roles) :
                    /\ e \in DOMAIN all_roles
                    /\ \E domain \in Domains, x, y \in EdgeNames :
                          n = Rewrite(x, domain) /\ e = Rewrite(y, domain)
           /\ call.op \in {"get_roles", "get_users"}
                 => /\ ret.kind = "names"
                    /\ \A i \in 1..Len(ret.names) :
                          Rewrite(ret.names[i], call.domain) \in DOMAIN all_roles
           /\ (call.op = "get_roles" /\ N1 \in DOMAIN all_roles)
                 => [i \in 1..Len(ret.names) |-> Rewrite(ret.names[i], call.domain)]
                       = all_roles[N1].roles
           /\ call.op = "get_users"
                 => {Rewrite(ret.names[i], call.domain) : i \in 1..Len(ret.names)}
                       = {n \in DOMAIN all_roles : N1 \in Range(all_roles[n].roles)}

=============================================================================
